---- MODULE Spec2Model ----
(***************************************************************************)
(* Model of two components of SMQTK-Descriptors:                           *)
(*                                                                         *)
(*   SolrDescriptorSet        (smqtk_descriptors/impls/descriptor_set/     *)
(*                             solr.py), the chunked batch client, and     *)
(*   CachingDescriptorElement (smqtk/representation/descriptor_element/    *)
(*                             cached_element_wrapper.py), the expiring    *)
(*                             cache wrapper with its monitor thread.      *)
(*                                                                         *)
(* The two components do not call each other.  SpecSolr runs the client's  *)
(* operations against one Solr index, SpecCache runs one wrapper with its  *)
(* caller threads and monitor threads, SpecCacheTimed is SpecCache with    *)
(* the monitor's polls taking no time.                                     *)
(***************************************************************************)
EXTENDS Integers, Sequences, FiniteSets, TLC

VARIABLES
    \* ---- the Solr instance behind SolrDescriptorSet.solr
    index,        \* documents by 'id', uncommitted changes included
    visible,      \* the documents a select sees: index as of the last commit
    clock,        \* time.time() as seen by the Solr client
    last,         \* the client call that has just returned: arguments, effects
    writes,       \* number of add / add_many / clear calls made so far
    \* ---- one CachingDescriptorElement
    elem,         \* "none", "ok", "rejected", then "deleting", "deleted"
    cache_expiration_timeout,
    poll_interval,
    cache_v,
    cache_last_access,
    cache_lock,   \* RLock: [owner, count]
    cache_thread, \* the Thread object self.cache_thread names, or None
    thread,       \* per Thread object: where its run() is, its t, its sleep
    caller,       \* per calling thread: where it is in vector()/__del__
    backing,      \* what self._d_elem.vector() returns at the moment
    now,          \* time.time() as seen by the wrapper
    returned      \* the vector() / has_vector() call that returned last

solr_vars  == <<index, visible, clock, last, writes>>
cache_vars == <<elem, cache_expiration_timeout, poll_interval, cache_v,
                cache_last_access, cache_lock, cache_thread, thread, caller,
                backing, now, returned>>
vars == <<solr_vars, cache_vars>>

None == "None"

(***************************************************************************)
(* Bounds of the model.                                                    *)
(***************************************************************************)
MaxLen     == 3   \* longest list of uuids handed to get_many / remove_many
MaxAdd     == 2   \* longest list of descriptors handed to add_many
MaxClauses == 3   \* largest max_boolean_clauses a client is built with
MaxClock   == 1   \* last value of the Solr client's clock
MaxWrites  == 2   \* add / add_many / clear calls in one run

(***************************************************************************)
(* Inputs of the Solr client.  Strings are TLA+ strings, so that the       *)
(* synthetic id is the concatenation the code builds.                      *)
(***************************************************************************)
SetUuids == {"a", "a-b"}
Uuids    == {"b-c", "c"}
Vectors  == {1, 2}

Min(a, b) == IF a <= b THEN a ELSE b

\* A DescriptorElement as the client sees it: uuid() and its vector.
Descriptors == [uuid : Uuids, vec : Vectors]

\* __init__: the configuration a SolrDescriptorSet keeps.
ConfigInputs == [set_uuid : SetUuids,
                 max_boolean_clauses : 1..MaxClauses,
                 commit_on_add : BOOLEAN]

\* __init__'s assertion: "Need more clauses".
init_ok(c) == c.max_boolean_clauses >= 2

Clients == {c \in ConfigInputs : init_ok(c)}

RECURSIVE SeqsUpTo(_, _)
SeqsUpTo(S, n) ==
    IF n = 0 THEN {<<>>}
    ELSE LET shorter == SeqsUpTo(S, n - 1)
         IN  shorter \cup {Append(s, x) : s \in {t \in shorter : Len(t) = n - 1}, x \in S}

UuidLists  == SeqsUpTo(Uuids, MaxLen)
DescrLists == SeqsUpTo(Descriptors, MaxAdd)

(***************************************************************************)
(* pickle.dumps / pickle.loads: a blob is not the descriptor, loads        *)
(* undoes dumps.                                                           *)
(***************************************************************************)
pickle_dumps(d) == [pickled |-> d]
pickle_loads(b) == b.pickled

\* doc_for_code_descr with the set's id written into the descriptor-uuid field.
doc_for_code_descr_set_as_uid(c, d) ==
    [id       |-> c.set_uuid \o "-" \o d.uuid,
     set_uuid |-> c.set_uuid,
     d_uid    |-> c.set_uuid]

\* _doc_for_code_descr: the identifying base of a descriptor's document.
doc_for_code_descr(c, d) ==
    [id       |-> c.set_uuid \o "-" \o d.uuid,
     set_uuid |-> c.set_uuid,
     d_uid    |-> d.uuid]

\* The document add_descriptor / add_many_descriptors builds for d.
descr_doc(c, d, t) ==
    LET base == doc_for_code_descr(c, d)
    IN  [id         |-> base.id,
         set_uuid   |-> base.set_uuid,
         d_uid      |-> base.d_uid,
         descriptor |-> pickle_dumps(d),
         timestamp  |-> t]

(***************************************************************************)
(* The Solr instance (solr.Solr), as far as the client uses it.  A         *)
(* document added or deleted without a commit is not seen by a select      *)
(* until some commit happens.                                              *)
(***************************************************************************)
PageSize == 10

\* solr.add that appends the document, whatever 'id' the index holds.
solr_add_append(idx, doc) == idx \cup {doc}

\* solr.add(doc): upsert by 'id'.
solr_add(idx, doc) == {x \in idx : x.id # doc.id} \cup {doc}

\* solr.add_many(docs): upsert each, in order.
RECURSIVE solr_add_many(_, _)
solr_add_many(idx, docs) ==
    IF docs = <<>> THEN idx
    ELSE solr_add_many(solr_add(idx, Head(docs)), Tail(docs))

\* The documents of idx matching  set_uuid_field:s AND (d_uid_field:u1 OR ...).
Matches(idx, s, uids) == {x \in idx : x.set_uuid = s /\ x.d_uid \in uids}

\* The documents of idx matching  set_uuid_field:s  alone.
SetMatches(idx, s) == {x \in idx : x.set_uuid = s}

\* The operator the store's query parser puts between two clauses written
\* with no operator between them: q.op of the request handler, "OR" unless
\* the store is configured otherwise.
DefaultOperators == {"OR", "AND"}

\* The documents of idx matching  set_uuid_field:s d_uid_field:* , and the
\* like with descriptor_field:* ; every document of idx has these fields.
OpenMatches(idx, s, q_op) ==
    IF q_op = "AND" THEN {x \in idx : x.set_uuid = s} ELSE idx

\* The store returns the matches in an order of its own.
RECURSIVE InOrder(_)
InOrder(docs) ==
    IF docs = {} THEN <<>>
    ELSE LET x == CHOOSE y \in docs : TRUE
         IN  <<x>> \o InOrder(docs \ {x})

\* solr.select(query): a response over the matching documents, first page.
solr_select(docs) == [all |-> InOrder(docs), start |-> 0]
numFound(r) == Len(r.all)
results(r)  == SubSeq(r.all, r.start + 1, Min(r.start + PageSize, Len(r.all)))
next_batch(r) == [r EXCEPT !.start = r.start + Len(results(r))]

\* solr.delete_query(query) for  set_uuid_field:s .
solr_delete_query(idx, s) == idx \ SetMatches(idx, s)

\* solr.delete(query) as batch_op of remove_many_descriptors calls it, for
\*  set_uuid_field:s AND (d_uid_field:u1 OR ...) .
solr_delete(idx, s, uids) == idx \ Matches(idx, s, uids)

\* solr.commit(): what was added or deleted becomes what a select sees.
solr_commit(idx) == idx

(***************************************************************************)
(* SolrDescriptorSet: the queries.                                         *)
(***************************************************************************)
Range(s) == {s[k] : k \in 1..Len(s)}

\* count(): numFound of  set_uuid_field:s AND descriptor_field:* .
count(vis, c) == Cardinality(SetMatches(vis, c.set_uuid))

\* has_descriptor(uuid): numFound of  set_uuid_field:s AND d_uid_field:uuid .
has_descriptor(vis, c, u) ==
    numFound(solr_select(Matches(vis, c.set_uuid, {u}))) # 0

\* The loop of get_many_descriptors: the batches it hands to batch_query.
RECURSIVE get_batches(_, _, _)
get_batches(uuids, batch, M) ==
    IF uuids = <<>>
    THEN IF batch # <<>> THEN <<batch>> ELSE <<>>
    ELSE LET b == Append(batch, Head(uuids))
         IN  IF Len(b) = M
             THEN <<b>> \o get_batches(Tail(uuids), <<>>, M)
             ELSE get_batches(Tail(uuids), b, M)

\* The loop of remove_many_descriptors: the batches it hands to batch_op.
\* batch.clear() runs on every iteration, whether or not the batch was sent.
RECURSIVE remove_batches(_, _, _)
remove_batches(uuids, batch, M) ==
    IF uuids = <<>>
    THEN IF batch # <<>> THEN <<batch>> ELSE <<>>
    ELSE LET b == Append(batch, Head(uuids))
         IN  (IF Len(b) = M THEN <<b>> ELSE <<>>)
                 \o remove_batches(Tail(uuids), <<>>, M)

\* Drain that calls next_batch() once when there is a page to come, not
\* once per page.
DrainOnePage(r, n) ==
    IF n = 0 THEN <<>> ELSE results(next_batch(r))

\* The pages after the first: range(r.numFound // 10) calls of next_batch().
RECURSIVE Drain(_, _)
Drain(r, n) ==
    IF n = 0 THEN <<>>
    ELSE LET r2 == next_batch(r)
         IN  results(r2) \o Drain(r2, n - 1)

\* batch_query of get_many_descriptors: the descriptors one sub-query yields.
batch_query(vis, c, batch) ==
    LET r    == solr_select(Matches(vis, c.set_uuid, Range(batch)))
        docs == results(r) \o Drain(r, numFound(r) \div PageSize)
    IN  [k \in 1..Len(docs) |-> pickle_loads(docs[k].descriptor)]

RECURSIVE Flatten(_)
Flatten(ss) == IF ss = <<>> THEN <<>> ELSE Head(ss) \o Flatten(Tail(ss))

\* get_many_descriptors(uuids), the generator run to its end.
get_many(vis, c, uuids) ==
    LET batches == get_batches(uuids, <<>>, c.max_boolean_clauses)
    IN  [queries |-> batches,
         out     |-> Flatten([k \in 1..Len(batches) |-> batch_query(vis, c, batches[k])]),
         raised  |-> None]

\* get_descriptor(uuid): tuple(self.get_many_descriptors([uuid]))[0].
get_one(vis, c, u) ==
    LET g == get_many(vis, c, <<u>>)
    IN  IF g.out = <<>>
        THEN [queries |-> g.queries, out |-> <<>>, raised |-> "IndexError"]
        ELSE [queries |-> g.queries, out |-> <<g.out[1]>>, raised |-> None]

\* The select of keys() / descriptors() / items() and its drain: the
\* documents the generator goes through.
enumerate(vis, c, q_op) ==
    LET r == solr_select(OpenMatches(vis, c.set_uuid, q_op))
    IN  results(r) \o Drain(r, numFound(r) \div PageSize)

\* remove_many_descriptors(uuids): the index after every batch_op it calls.
RECURSIVE batch_ops(_, _, _)
batch_ops(idx, c, batches) ==
    IF batches = <<>> THEN idx
    ELSE batch_ops(solr_delete(idx, c.set_uuid, Range(Head(batches))), c, Tail(batches))

(***************************************************************************)
(* SolrDescriptorSet: the operations.  'last' keeps what the call was      *)
(* given, the sub-queries it sent to Solr (each the list of uuids it       *)
(* names), the number of calls it made on Solr other than commit, what it  *)
(* returned or raised, and count() and the listed uuids present before.    *)
(***************************************************************************)
NoCall == [op |-> "none", client |-> None, uuids |-> <<>>, descrs |-> <<>>,
           queries |-> <<>>, calls |-> 0, out |-> <<>>, raised |-> None,
           pre_count |-> 0, pre_has |-> {}]

Call(op, c, uuids, descrs, queries, calls, out, raised) ==
    [op |-> op, client |-> c, uuids |-> uuids, descrs |-> descrs,
     queries |-> queries, calls |-> calls, out |-> out, raised |-> raised,
     pre_count |-> count(visible, c),
     pre_has |-> {u \in Range(uuids) : has_descriptor(visible, c, u)}]

\* A call is made once the result of the previous one has been looked at.
Idle == last.op = "none"

add_descriptor(c, d) ==
    LET doc == descr_doc(c, d, clock)
        idx == solr_add(index, doc)
    IN  /\ Idle /\ writes < MaxWrites
        /\ index' = idx
        /\ visible' = IF c.commit_on_add THEN solr_commit(idx) ELSE visible
        /\ last' = Call("add", c, <<d.uuid>>, <<d>>, <<>>, 1, <<>>, None)
        /\ writes' = writes + 1
        /\ UNCHANGED <<clock, cache_vars>>

add_many_descriptors(c, ds) ==
    LET documents == [k \in 1..Len(ds) |-> descr_doc(c, ds[k], clock)]
        idx       == solr_add_many(index, documents)
    IN  /\ Idle /\ writes < MaxWrites
        /\ index' = idx
        /\ visible' = IF c.commit_on_add THEN solr_commit(idx) ELSE visible
        /\ last' = Call("add_many", c, [k \in 1..Len(ds) |-> ds[k].uuid], ds,
                        <<>>, 1, <<>>, None)
        /\ writes' = writes + 1
        /\ UNCHANGED <<clock, cache_vars>>

get_descriptor(c, u) ==
    LET g == get_one(visible, c, u)
    IN  /\ Idle
        /\ last' = Call("get", c, <<u>>, <<>>, g.queries, Len(g.queries), g.out, g.raised)
        /\ UNCHANGED <<index, visible, clock, writes, cache_vars>>

get_many_descriptors(c, uuids) ==
    LET g == get_many(visible, c, uuids)
    IN  /\ Idle
        /\ last' = Call("get_many", c, uuids, <<>>, g.queries, Len(g.queries), g.out, g.raised)
        /\ UNCHANGED <<index, visible, clock, writes, cache_vars>>

\* remove_many raising KeyError for a uuid that has no document, as its
\* docstring announces.
remove_many_keyerror(op, c, uuids) ==
    LET batches == remove_batches(uuids, <<>>, c.max_boolean_clauses)
        missing == {u \in Range(uuids) : Matches(index, c.set_uuid, {u}) = {}}
    IN  /\ Idle
        /\ index' = batch_ops(index, c, batches)
        /\ last' = Call(op, c, uuids, <<>>, batches, Len(batches), <<>>,
                        IF missing # {} THEN "KeyError" ELSE None)
        /\ UNCHANGED <<visible, clock, writes, cache_vars>>

\* remove_many_descriptors(uuids), and remove_descriptor(uuid), which is
\* self.remove_many_descriptors([uuid]).
remove_many(op, c, uuids) ==
    LET batches == remove_batches(uuids, <<>>, c.max_boolean_clauses)
    IN  /\ Idle
        /\ index' = batch_ops(index, c, batches)
        /\ last' = Call(op, c, uuids, <<>>, batches, Len(batches), <<>>, None)
        /\ UNCHANGED <<visible, clock, writes, cache_vars>>

remove_many_descriptors(c, uuids) == remove_many("remove_many", c, uuids)

remove_descriptor(c, u) == remove_many("remove", c, <<u>>)

clear(c) ==
    LET idx == solr_delete_query(index, c.set_uuid)
    IN  /\ Idle /\ writes < MaxWrites
        /\ index' = idx
        /\ visible' = solr_commit(idx)
        /\ last' = Call("clear", c, <<>>, <<>>, <<>>, 1, <<>>, None)
        /\ writes' = writes + 1
        /\ UNCHANGED <<clock, cache_vars>>

\* keys(), the generator run to its end.
keys(c, q_op) ==
    LET docs == enumerate(visible, c, q_op)
    IN  /\ Idle
        /\ last' = Call("keys", c, <<>>, <<>>, <<>>, 1 + Len(docs) \div PageSize,
                        [k \in 1..Len(docs) |-> docs[k].d_uid], None)
        /\ UNCHANGED <<index, visible, clock, writes, cache_vars>>

\* descriptors(), the generator run to its end.
descriptors(c, q_op) ==
    LET docs == enumerate(visible, c, q_op)
    IN  /\ Idle
        /\ last' = Call("descriptors", c, <<>>, <<>>, <<>>, 1 + Len(docs) \div PageSize,
                        [k \in 1..Len(docs) |-> pickle_loads(docs[k].descriptor)], None)
        /\ UNCHANGED <<index, visible, clock, writes, cache_vars>>

\* items(), the generator run to its end: pairs of d.uuid() and d.
items(c, q_op) ==
    LET docs == enumerate(visible, c, q_op)
    IN  /\ Idle
        /\ last' = Call("items", c, <<>>, <<>>, <<>>, 1 + Len(docs) \div PageSize,
                        [k \in 1..Len(docs) |->
                            <<pickle_loads(docs[k].descriptor).uuid,
                              pickle_loads(docs[k].descriptor)>>], None)
        /\ UNCHANGED <<index, visible, clock, writes, cache_vars>>

\* The caller has looked at what its call returned.
CallDone ==
    /\ ~ Idle
    /\ last' = NoCall
    /\ UNCHANGED <<index, visible, clock, writes, cache_vars>>

\* time.time() moves on between calls.
SolrTick ==
    /\ Idle /\ clock < MaxClock
    /\ clock' = clock + 1
    /\ UNCHANGED <<index, visible, last, writes, cache_vars>>

InitSolr ==
    /\ index = {}
    /\ visible = {}
    /\ clock = 0
    /\ last = NoCall
    /\ writes = 0

NextSolr ==
    \/ \E c \in Clients, d \in Descriptors : add_descriptor(c, d)
    \/ \E c \in Clients, ds \in DescrLists : add_many_descriptors(c, ds)
    \/ \E c \in Clients, u \in Uuids : get_descriptor(c, u)
    \/ \E c \in Clients, uuids \in UuidLists : get_many_descriptors(c, uuids)
    \/ \E c \in Clients, u \in Uuids : remove_descriptor(c, u)
    \/ \E c \in Clients, uuids \in UuidLists : remove_many_descriptors(c, uuids)
    \/ \E c \in Clients : clear(c)
    \/ \E c \in Clients, q_op \in DefaultOperators : keys(c, q_op)
    \/ \E c \in Clients, q_op \in DefaultOperators : descriptors(c, q_op)
    \/ \E c \in Clients, q_op \in DefaultOperators : items(c, q_op)
    \/ CallDone
    \/ SolrTick

(***************************************************************************)
(* SpecPaging: sets large enough for a select to span several pages of the *)
(* store.  Committing clients add the first n of MaxDocs descriptors to    *)
(* their set in one add_many, and get_many asks for the first n uuids.     *)
(***************************************************************************)
MaxDocs == 21   \* descriptors of one set

\* __init__'s default for max_boolean_clauses.
DefaultClauses == 1024

PageUuids == [k \in 1..MaxDocs |-> "u" \o ToString(k)]

PagingClients ==
    {c \in [set_uuid : SetUuids,
            max_boolean_clauses : {PageSize, DefaultClauses},
            commit_on_add : {TRUE}] : init_ok(c)}

PagingUuidLists  == {SubSeq(PageUuids, 1, n) : n \in 0..MaxDocs}
PagingDescrLists ==
    {[k \in 1..n |-> [uuid |-> PageUuids[k], vec |-> 1]] : n \in 0..MaxDocs}

NextPaging ==
    \/ \E c \in PagingClients, ds \in PagingDescrLists : add_many_descriptors(c, ds)
    \/ \E c \in PagingClients, uuids \in PagingUuidLists : get_many_descriptors(c, uuids)
    \/ CallDone

(***************************************************************************)
(* Claims about SolrDescriptorSet, under SpecSolr.                         *)
(***************************************************************************)
\* ceil(n / d) for d > 0.
CeilDiv(n, d) == (n + d - 1) \div d

\* C1: after remove_many(uuids), and after remove(uuid), returns, the store
\* holds no document of the client's set for any listed uuid, so has(u) is
\* false for each of them.
C1_RemovedAreGone ==
    last.op \in {"remove", "remove_many"} =>
        \A u \in Range(last.uuids) :
            /\ Matches(index, last.client.set_uuid, {u}) = {}
            /\ ~ has_descriptor(visible, last.client, u)

\* C6: every sub-query get_many and remove_many send names at most M - 1
\* uuids.
C6_QueryNamesAtMostMminus1 ==
    last.op \in {"get_many", "remove_many"} =>
        \A k \in 1..Len(last.queries) :
            Len(last.queries[k]) <= last.client.max_boolean_clauses - 1

\* C7: add_many, remove_many and get_many of N uuids each make exactly
\* ceil(N / (M - 1)) calls on the store.
C7_CallsAreCeilNOverMminus1 ==
    last.op \in {"add_many", "remove_many", "get_many"} =>
        last.calls = CeilDiv(Len(last.uuids), last.client.max_boolean_clauses - 1)

\* C8: get_many given a uuid with no document in the set signals that uuid as
\* not found (KeyError), and still yields the descriptors of the other uuids.
C8_GetManySignalsMissing ==
    last.op = "get_many" =>
        LET missing == {u \in Range(last.uuids) : ~ has_descriptor(visible, last.client, u)}
        IN  /\ missing # {} => last.raised = "KeyError"
            /\ {d.uuid : d \in Range(last.out)} = Range(last.uuids) \ missing

C10_RoundTripAnyClient ==
    last.op = "add" =>
        LET g == get_one(visible, last.client, last.descrs[1].uuid)
        IN  g.raised = None /\ g.out = <<last.descrs[1]>>

\* C10 amended: once add(d) has returned on a client that commits on add,
\* get(d.uuid) on the same client returns a descriptor equal to d.
C10_RoundTripCommitted ==
    (last.op = "add" /\ last.client.commit_on_add) =>
        LET g == get_one(visible, last.client, last.descrs[1].uuid)
        IN  g.raised = None /\ g.out = <<last.descrs[1]>>

\* C10 witness: add(d) has returned on a committing client whose set already
\* held a document for d's uuid.
C10_Witness ==
    /\ last.op = "add"
    /\ last.client.commit_on_add
    /\ last.descrs[1].uuid \in last.pre_has

\* At most one document per (set_uuid, descriptor uuid).
OnePerPair(docs) ==
    \A x, y \in docs : (x.set_uuid = y.set_uuid /\ x.d_uid = y.d_uid) => x = y

\* The descriptor a list of descriptors gives last for uuid u.
LastOf(ds, u) ==
    ds[CHOOSE k \in 1..Len(ds) :
          ds[k].uuid = u /\ \A j \in (k + 1)..Len(ds) : ds[j].uuid # u]

\* This step is an add / add_many call of descriptors whose uuids has() all
\* reports as present in the client's set.
ReAdd ==
    /\ last.op = "none"
    /\ last'.op \in {"add", "add_many"}
    /\ last'.descrs # <<>>
    /\ \A u \in Range(last'.uuids) : has_descriptor(visible, last'.client, u)

\* What a re-add leaves: one document per pair, each re-added uuid's document
\* carrying the call's last descriptor for it and the call's timestamp, and
\* count() as before.
Overwritten ==
    LET c == last'.client
    IN  /\ OnePerPair(index') /\ OnePerPair(visible')
        /\ \A u \in Range(last'.uuids) :
               Matches(visible', c.set_uuid, {u})
                   = {descr_doc(c, LastOf(last'.descrs, u), clock)}
        /\ count(visible', c) <= count(visible, c)

\* C11 as claimed: the store never holds two documents for one (set_id,
\* uuid), and add / add_many of uuids already in the set overwrites their
\* documents, the call's value and timestamp winning and count() not growing,
\* for every client.
C11_AddOverwritesAnyClient ==
    /\ [](OnePerPair(index) /\ OnePerPair(visible))
    /\ [][ReAdd => Overwritten]_vars

\* C11 amended: the same, for a client that commits on add, called when the
\* store holds no uncommitted change.
C11_AddOverwritesCommitted ==
    /\ [](OnePerPair(index) /\ OnePerPair(visible))
    /\ [][(ReAdd /\ last'.client.commit_on_add /\ index = visible)
             => Overwritten]_vars

\* C11 witness: a committing add_many has returned that gave two descriptors
\* for a uuid the set already held, at a later time than the first add, and
\* the set holds the second.
C11_Witness ==
    /\ last.op = "add_many"
    /\ last.client.commit_on_add
    /\ Len(last.descrs) = 2
    /\ last.descrs[1].uuid = last.descrs[2].uuid
    /\ last.descrs[1].vec # last.descrs[2].vec
    /\ last.descrs[1].uuid \in last.pre_has
    /\ last.pre_count = 1
    /\ clock > 0
    /\ \E x \in visible : x.timestamp = clock /\ pickle_loads(x.descriptor) = last.descrs[2]

\* C12: keys(), descriptors() and items() of a client yield exactly the
\* documents whose set-identifier field equals the client's set_uuid, each
\* once, and no document of another set.
C12_EnumerationIsTheSet ==
    LET docs == SetMatches(visible, last.client.set_uuid)
        ds   == {pickle_loads(x.descriptor) : x \in docs}
    IN  /\ last.op \in {"keys", "descriptors", "items"} =>
               Len(last.out) = Cardinality(docs)
        /\ last.op = "keys" => Range(last.out) = {x.d_uid : x \in docs}
        /\ last.op = "descriptors" => Range(last.out) = ds
        /\ last.op = "items" => Range(last.out) = {<<d.uuid, d>> : d \in ds}

\* The descriptors of the documents the k-th sub-query of the last call
\* matches.
SubQueryMatches(k) ==
    {pickle_loads(x.descriptor) :
        x \in Matches(visible, last.client.set_uuid, Range(last.queries[k]))}

\* The number of documents the sub-queries before the k-th match.
RECURSIVE MatchedBefore(_)
MatchedBefore(k) ==
    IF k = 1 THEN 0
    ELSE MatchedBefore(k - 1) + Cardinality(SubQueryMatches(k - 1))

\* C19: get_many yields, sub-query after sub-query, exactly the documents the
\* sub-query matches, each once, whatever their number: none, less than a
\* page, a multiple of the page size, or more.  Checked under SpecPaging.
C19_SubQueriesAreDrained ==
    last.op = "get_many" =>
        /\ Len(last.out) = MatchedBefore(Len(last.queries) + 1)
        /\ \A k \in 1..Len(last.queries) :
               Range(SubSeq(last.out, MatchedBefore(k) + 1, MatchedBefore(k + 1)))
                   = SubQueryMatches(k)

\* C19 witness: get_many has returned after three sub-queries, the first two
\* matching exactly a page and the third less, while the store also holds
\* documents of another set.
C19_Witness ==
    /\ last.op = "get_many"
    /\ Len(last.queries) = 3
    /\ Cardinality(SubQueryMatches(1)) = PageSize
    /\ Cardinality(SubQueryMatches(2)) = PageSize
    /\ Cardinality(SubQueryMatches(3)) = 1
    /\ Len(last.out) = 2 * PageSize + 1
    /\ \E x \in visible : x.set_uuid # last.client.set_uuid

\* C22: add / add_many on one client leaves every document of another set in
\* the store as it was: no two (set_uuid, uuid) pairs share a document id.
C22_AddKeepsOtherSets ==
    [][(last.op = "none" /\ last'.op \in {"add", "add_many"}) =>
          \A x \in index : x.set_uuid # last'.client.set_uuid => x \in index']_vars

(***************************************************************************)
(* CachingDescriptorElement.  One wrapper, the threads that call           *)
(* vector() / has_vector() on it, and the Thread objects it creates for    *)
(* thread_monitor_cache_expiration.                                        *)
(***************************************************************************)
MaxTime    == 5   \* last value of the wrapper's clock
MaxThreads == 2   \* Thread objects that exist at one time

Infinity == 999   \* float('inf') as cache_expiration_timeout
NoTime   == -1    \* None where a timestamp goes
NoThread == 0     \* None where a Thread object goes

Callers  == {"c1", "c2"}
Threads  == 1..MaxThreads
Values   == {"v1", "v2"}

TimeoutInputs == {0, 2, Infinity}
PollInputs    == {-1, 0, 1, 2}

\* threading.Thread.is_alive(): started and run() not yet returned.
alive(i) == thread[i].pc \in {"sleep", "woken", "exiting"}

NewThread == [pc |-> "new", t |-> NoTime, wake |-> NoTime, why |-> None]

\* threading.RLock
Unlocked == [owner |-> None, count |-> 0]
LockFree == cache_lock.count = 0
acquire(who) == [owner |-> who, count |-> cache_lock.count + 1]

\* A release that leaves the lock with its owner.
release_kept == cache_lock

release ==
    IF cache_lock.count = 1 THEN Unlocked
    ELSE [cache_lock EXCEPT !.count = @ - 1]

\* What the call that returned last handed back: returned.v is what vector()
\* returned (at time returned.at, with or without a call of the wrapped
\* element), and has_vector() is  self.vector() is not None .
Result == IF returned.op = "has_vector" THEN returned.v # None ELSE returned.v

\* __init__
CacheInit(T, P) ==
    /\ elem = "none"
    /\ cache_expiration_timeout' = T
    /\ poll_interval' = P
    \* assert cache_expiration_timeout > 0
    /\ elem' = IF T > 0 THEN "ok" ELSE "rejected"
    /\ cache_v' = None
    /\ cache_last_access' = NoTime
    /\ cache_lock' = Unlocked
    /\ cache_thread' = NoThread
    /\ UNCHANGED <<thread, caller, backing, now, returned, solr_vars>>

\* VectorCall with cache_last_access set only when the cache is filled, not
\* on a hit.
VectorCallNoTouch(c, op) ==
    /\ elem = "ok"
    /\ caller[c].pc = "idle"
    /\ LockFree
    /\ IF cache_v # None
       THEN IF cache_thread # NoThread
            THEN /\ UNCHANGED cache_last_access
                 /\ returned' = [by |-> c, op |-> op, v |-> cache_v,
                                 fetched |-> FALSE, at |-> now]
                 /\ UNCHANGED <<caller, cache_lock>>
            ELSE \* "Have a cache, but no monitor thread."
                 /\ returned' = [by |-> c, op |-> op, v |-> "AssertionError",
                                 fetched |-> FALSE, at |-> now]
                 /\ UNCHANGED <<caller, cache_lock, cache_last_access>>
       ELSE /\ cache_lock' = acquire(c)
            /\ caller' = [caller EXCEPT ![c] = [pc |-> "fetch", op |-> op, v |-> None]]
            /\ UNCHANGED <<cache_last_access, returned>>
    /\ UNCHANGED <<elem, cache_expiration_timeout, poll_interval, cache_v,
                   cache_thread, thread, backing, now, solr_vars>>

\* vector(), up to the fetch: take the lock and look at cache_v.  On a hit
\* the call ends here: the assertion, cache_last_access, the release.
VectorCall(c, op) ==
    /\ elem = "ok"
    /\ caller[c].pc = "idle"
    /\ LockFree
    /\ IF cache_v # None
       THEN IF cache_thread # NoThread
            THEN /\ cache_last_access' = now
                 /\ returned' = [by |-> c, op |-> op, v |-> cache_v,
                                 fetched |-> FALSE, at |-> now]
                 /\ UNCHANGED <<caller, cache_lock>>
            ELSE \* "Have a cache, but no monitor thread."
                 /\ returned' = [by |-> c, op |-> op, v |-> "AssertionError",
                                 fetched |-> FALSE, at |-> now]
                 /\ UNCHANGED <<caller, cache_lock, cache_last_access>>
       ELSE /\ cache_lock' = acquire(c)
            /\ caller' = [caller EXCEPT ![c] = [pc |-> "fetch", op |-> op, v |-> None]]
            /\ UNCHANGED <<cache_last_access, returned>>
    /\ UNCHANGED <<elem, cache_expiration_timeout, poll_interval, cache_v,
                   cache_thread, thread, backing, now, solr_vars>>

\* VectorFetch that treats no vector like a vector: it goes on to fill the
\* cache with it.
VectorFetchKeepsAbsent(c, fails) ==
    /\ caller[c].pc = "fetch"
    /\ IF fails
       THEN /\ cache_lock' = release
            /\ caller' = [caller EXCEPT ![c] = [pc |-> "idle", op |-> None, v |-> None]]
            /\ returned' = [by |-> c, op |-> caller[c].op, v |-> "raised",
                            fetched |-> TRUE, at |-> now]
            /\ UNCHANGED cache_last_access
       ELSE /\ caller' = [caller EXCEPT ![c] = [@ EXCEPT !.pc = "join", !.v = backing]]
            /\ UNCHANGED <<cache_lock, cache_last_access, returned>>
    /\ UNCHANGED <<elem, cache_expiration_timeout, poll_interval, cache_v,
                   cache_thread, thread, backing, now, solr_vars>>

\* v = self._d_elem.vector(): it returns what the wrapped element holds, or
\* fails.  With no vector the call ends; with one it goes on to the join.
VectorFetch(c, fails) ==
    /\ caller[c].pc = "fetch"
    /\ IF fails
       THEN /\ cache_lock' = release
            /\ caller' = [caller EXCEPT ![c] = [pc |-> "idle", op |-> None, v |-> None]]
            /\ returned' = [by |-> c, op |-> caller[c].op, v |-> "raised",
                            fetched |-> TRUE, at |-> now]
            /\ UNCHANGED cache_last_access
       ELSE IF backing = None
       THEN /\ cache_last_access' = now
            /\ cache_lock' = release
            /\ caller' = [caller EXCEPT ![c] = [pc |-> "idle", op |-> None, v |-> None]]
            /\ returned' = [by |-> c, op |-> caller[c].op, v |-> None,
                            fetched |-> TRUE, at |-> now]
       ELSE /\ caller' = [caller EXCEPT ![c] = [@ EXCEPT !.pc = "join", !.v = backing]]
            /\ UNCHANGED <<cache_lock, cache_last_access, returned>>
    /\ UNCHANGED <<elem, cache_expiration_timeout, poll_interval, cache_v,
                   cache_thread, thread, backing, now, solr_vars>>

\* threading.Thread(...): a new Thread object, which is not the one
\* self.cache_thread still names.
CanCreateThread == \E i \in Threads : ~ alive(i) /\ i # cache_thread
FreeThread == CHOOSE i \in Threads : ~ alive(i) /\ i # cache_thread

\* VectorPopulate without the join of the old monitor thread.
VectorPopulateNoJoin(c) ==
    /\ caller[c].pc = "join"
    /\ CanCreateThread
    /\ cache_v' = caller[c].v
    /\ cache_thread' = FreeThread
    /\ thread' = [thread EXCEPT ![FreeThread] =
                     [pc |-> "sleep", t |-> NoTime, wake |-> now + poll_interval,
                      why |-> None]]
    /\ cache_last_access' = now
    /\ cache_lock' = release
    /\ caller' = [caller EXCEPT ![c] = [pc |-> "idle", op |-> None, v |-> None]]
    /\ returned' = [by |-> c, op |-> caller[c].op, v |-> caller[c].v,
                    fetched |-> TRUE, at |-> now]
    /\ UNCHANGED <<elem, cache_expiration_timeout, poll_interval, backing, now,
                   solr_vars>>

\* VectorPopulate that starts the monitor thread only for a finite
\* cache_expiration_timeout.
VectorPopulateFiniteOnly(c) ==
    /\ caller[c].pc = "join"
    /\ cache_thread # NoThread => ~ alive(cache_thread)
    /\ CanCreateThread
    /\ cache_v' = caller[c].v
    /\ IF cache_expiration_timeout = Infinity
       THEN UNCHANGED <<cache_thread, thread>>
       ELSE /\ cache_thread' = FreeThread
            /\ thread' = [thread EXCEPT ![FreeThread] =
                     [pc |-> "sleep", t |-> NoTime, wake |-> now + poll_interval,
                      why |-> None]]
    /\ cache_last_access' = now
    /\ cache_lock' = release
    /\ caller' = [caller EXCEPT ![c] = [pc |-> "idle", op |-> None, v |-> None]]
    /\ returned' = [by |-> c, op |-> caller[c].op, v |-> caller[c].v,
                    fetched |-> TRUE, at |-> now]
    /\ UNCHANGED <<elem, cache_expiration_timeout, poll_interval, backing, now,
                   solr_vars>>

\* The rest of vector() after a fetch that found a vector: join the old
\* monitor thread if there is one, set cache_v, start the new monitor
\* thread, set cache_last_access, release the lock.
VectorPopulate(c) ==
    /\ caller[c].pc = "join"
    /\ cache_thread # NoThread => ~ alive(cache_thread)
    /\ CanCreateThread
    /\ cache_v' = caller[c].v
    /\ cache_thread' = FreeThread
    /\ thread' = [thread EXCEPT ![FreeThread] =
                     [pc |-> "sleep", t |-> NoTime, wake |-> now + poll_interval,
                      why |-> None]]
    /\ cache_last_access' = now
    /\ cache_lock' = release
    /\ caller' = [caller EXCEPT ![c] = [pc |-> "idle", op |-> None, v |-> None]]
    /\ returned' = [by |-> c, op |-> caller[c].op, v |-> caller[c].v,
                    fetched |-> TRUE, at |-> now]
    /\ UNCHANGED <<elem, cache_expiration_timeout, poll_interval, backing, now,
                   solr_vars>>

(***************************************************************************)
(* thread_monitor_cache_expiration                                         *)
(***************************************************************************)
\* time.sleep(elem.poll_interval) is over; t = time.time().  A sleep of a
\* negative length raises, and run() ends with that exception.
MonitorWake(i) ==
    /\ thread[i].pc = "sleep"
    /\ IF poll_interval < 0
       THEN thread' = [thread EXCEPT ![i] =
                [pc |-> "dead", t |-> NoTime, wake |-> NoTime, why |-> "sleep raised"]]
       ELSE /\ now >= thread[i].wake
            /\ thread' = [thread EXCEPT ![i] = [@ EXCEPT !.pc = "woken", !.t = now]]
    /\ UNCHANGED <<elem, cache_expiration_timeout, poll_interval, cache_v,
                   cache_last_access, cache_lock, cache_thread, caller, backing,
                   now, returned, solr_vars>>

\* TimedOut with the operands of the subtraction exchanged.
TimedOutSwapped(t) ==
    /\ cache_expiration_timeout # Infinity
    /\ cache_last_access - t >= cache_expiration_timeout

\* t - elem.cache_last_access >= elem.cache_expiration_timeout
TimedOut(t) ==
    /\ cache_expiration_timeout # Infinity
    /\ t - cache_last_access >= cache_expiration_timeout

\* MonitorPoll that clears the value on timeout and stays in its loop.
MonitorPollStaysOn(i) ==
    /\ thread[i].pc = "woken"
    /\ LockFree
    /\ IF TimedOut(thread[i].t)
       THEN /\ cache_v' = None
            /\ thread' = [thread EXCEPT ![i] =
                  [pc |-> "sleep", t |-> NoTime, wake |-> now + poll_interval, why |-> None]]
       ELSE IF cache_v = None
       THEN /\ thread' = [thread EXCEPT ![i] =
                  [pc |-> "exiting", t |-> NoTime, wake |-> NoTime, why |-> "invalidated"]]
            /\ UNCHANGED cache_v
       ELSE /\ thread' = [thread EXCEPT ![i] =
                  [pc |-> "sleep", t |-> NoTime, wake |-> now + poll_interval, why |-> None]]
            /\ UNCHANGED cache_v
    /\ UNCHANGED <<elem, cache_expiration_timeout, poll_interval,
                   cache_last_access, cache_lock, cache_thread, caller, backing,
                   now, returned, solr_vars>>

\* MonitorPoll without the  elif elem.cache_v is None  branch.
MonitorPollNoInvalidate(i) ==
    /\ thread[i].pc = "woken"
    /\ LockFree
    /\ IF TimedOut(thread[i].t)
       THEN /\ cache_v' = None
            /\ thread' = [thread EXCEPT ![i] =
                  [pc |-> "exiting", t |-> NoTime, wake |-> NoTime, why |-> "timeout"]]
       ELSE /\ thread' = [thread EXCEPT ![i] =
                  [pc |-> "sleep", t |-> NoTime, wake |-> now + poll_interval, why |-> None]]
            /\ UNCHANGED cache_v
    /\ UNCHANGED <<elem, cache_expiration_timeout, poll_interval,
                   cache_last_access, cache_lock, cache_thread, caller, backing,
                   now, returned, solr_vars>>

\* with elem.cache_lock: the check of one iteration, then the next sleep or
\* the end of the loop.
MonitorPoll(i) ==
    /\ thread[i].pc = "woken"
    /\ LockFree
    /\ IF TimedOut(thread[i].t)
       THEN /\ cache_v' = None
            /\ thread' = [thread EXCEPT ![i] =
                  [pc |-> "exiting", t |-> NoTime, wake |-> NoTime, why |-> "timeout"]]
       ELSE IF cache_v = None
       THEN /\ thread' = [thread EXCEPT ![i] =
                  [pc |-> "exiting", t |-> NoTime, wake |-> NoTime, why |-> "invalidated"]]
            /\ UNCHANGED cache_v
       ELSE /\ thread' = [thread EXCEPT ![i] =
                  [pc |-> "sleep", t |-> NoTime, wake |-> now + poll_interval, why |-> None]]
            /\ UNCHANGED cache_v
    /\ UNCHANGED <<elem, cache_expiration_timeout, poll_interval,
                   cache_last_access, cache_lock, cache_thread, caller, backing,
                   now, returned, solr_vars>>

\* The loop is left: the last log line, and run() returns.
MonitorExit(i) ==
    /\ thread[i].pc = "exiting"
    /\ thread' = [thread EXCEPT ![i] = [@ EXCEPT !.pc = "dead"]]
    /\ UNCHANGED <<elem, cache_expiration_timeout, poll_interval, cache_v,
                   cache_last_access, cache_lock, cache_thread, caller, backing,
                   now, returned, solr_vars>>

(***************************************************************************)
(* __del__: runs once no thread is inside a call on the wrapper.           *)
(***************************************************************************)
\* with self.cache_lock: self.cache_v = None
DelClear ==
    /\ elem = "ok"
    /\ \A c \in Callers : caller[c].pc = "idle"
    /\ LockFree
    /\ cache_v' = None
    /\ elem' = "deleting"
    /\ UNCHANGED <<cache_expiration_timeout, poll_interval, cache_last_access,
                   cache_lock, cache_thread, thread, caller, backing, now,
                   returned, solr_vars>>

\* DelJoin that does not wait for the monitor thread.
DelJoinNoWait ==
    /\ elem = "deleting"
    /\ elem' = "deleted"
    /\ UNCHANGED <<cache_expiration_timeout, poll_interval, cache_v,
                   cache_last_access, cache_lock, cache_thread, thread, caller,
                   backing, now, returned, solr_vars>>

\* if self.cache_thread: self.cache_thread.join()
DelJoin ==
    /\ elem = "deleting"
    /\ cache_thread # NoThread => ~ alive(cache_thread)
    /\ elem' = "deleted"
    /\ UNCHANGED <<cache_expiration_timeout, poll_interval, cache_v,
                   cache_last_access, cache_lock, cache_thread, thread, caller,
                   backing, now, returned, solr_vars>>

(***************************************************************************)
(* The environment of the wrapper.                                         *)
(***************************************************************************)
\* The wrapped element's vector is set, changed or removed by its owner.
BackingSet(x) ==
    /\ elem = "ok"
    /\ x # backing
    /\ backing' = x
    /\ UNCHANGED <<elem, cache_expiration_timeout, poll_interval, cache_v,
                   cache_last_access, cache_lock, cache_thread, thread, caller,
                   now, returned, solr_vars>>

\* A monitor thread that could run now: its sleep is over, or it is at the
\* lock and the lock is free, or it is leaving.
Due(i) ==
    \/ thread[i].pc = "sleep" /\ now >= thread[i].wake
    \/ thread[i].pc = "woken" /\ LockFree
    \/ thread[i].pc = "exiting"

\* Time passes, whatever the threads are doing.  The clock stops at MaxTime,
\* except that while __del__ waits a sleep that has begun still comes to its
\* end.
Tick ==
    /\ \/ elem \in {"ok", "deleting"} /\ now < MaxTime
       \/ elem = "deleting" /\ \E i \in Threads :
                                  thread[i].pc = "sleep" /\ now < thread[i].wake
    /\ now' = now + 1
    /\ UNCHANGED <<elem, cache_expiration_timeout, poll_interval, cache_v,
                   cache_last_access, cache_lock, cache_thread, thread, caller,
                   backing, returned, solr_vars>>

\* Time passes only when no monitor thread is due: sleep() takes exactly
\* poll_interval and a monitor thread that can run does so at once.
TickPunctual ==
    /\ \A i \in Threads : ~ Due(i)
    /\ Tick

InitCache ==
    /\ elem = "none"
    /\ cache_expiration_timeout = 0
    /\ poll_interval = 0
    /\ cache_v = None
    /\ cache_last_access = NoTime
    /\ cache_lock = Unlocked
    /\ cache_thread = NoThread
    /\ thread = [i \in Threads |-> NewThread]
    /\ caller = [c \in Callers |-> [pc |-> "idle", op |-> None, v |-> None]]
    /\ backing = None
    /\ now = 0
    /\ returned = [by |-> None, op |-> None, v |-> None, fetched |-> FALSE,
                   at |-> NoTime]

Init == InitSolr /\ InitCache

SpecSolr == Init /\ [][NextSolr]_vars

SpecPaging == Init /\ [][NextPaging]_vars

CacheSteps ==
    \/ \E T \in TimeoutInputs, P \in PollInputs : CacheInit(T, P)
    \/ \E c \in Callers, op \in {"vector", "has_vector"} : VectorCall(c, op)
    \/ \E c \in Callers, fails \in BOOLEAN : VectorFetch(c, fails)
    \/ \E c \in Callers : VectorPopulate(c)
    \/ \E i \in Threads : MonitorWake(i)
    \/ \E i \in Threads : MonitorPoll(i)
    \/ \E i \in Threads : MonitorExit(i)
    \/ DelClear
    \/ DelJoin
    \/ \E x \in {None} \cup Values : BackingSet(x)

NextCache == CacheSteps \/ Tick

NextCacheTimed == CacheSteps \/ TickPunctual

SpecCache == Init /\ [][NextCache]_vars

SpecCacheTimed == Init /\ [][NextCacheTimed]_vars

\* Fair scheduling: a thread that can take its next step does so at some
\* time, the wrapped element's vector() returns or raises, and time passes.
Fairness ==
    /\ \A i \in Threads : /\ WF_vars(MonitorWake(i))
                           /\ WF_vars(MonitorPoll(i))
                           /\ WF_vars(MonitorExit(i))
    /\ \A c \in Callers : /\ WF_vars(\E fails \in BOOLEAN : VectorFetch(c, fails))
                           /\ WF_vars(VectorPopulate(c))
    /\ WF_vars(DelJoin)
    /\ WF_vars(Tick)

SpecCacheFair == Init /\ [][NextCache]_vars /\ Fairness

(***************************************************************************)
(* Claims about CachingDescriptorElement.                                  *)
(***************************************************************************)
Monitors == {i \in Threads : alive(i)}

\* C2: at most one expiry monitor of the wrapper runs at any time, and a
\* monitor is started only when no earlier monitor is still running.
C2_OneMonitorAtATime ==
    /\ [](Cardinality(Monitors) <= 1)
    /\ [][\A i \in Threads : (~ alive(i) /\ alive(i)') => Monitors = {}]_vars

\* C2 witness: a monitor is running and the monitor before it has exited.
C2_Witness ==
    \E i, j \in Threads : i # j /\ alive(i) /\ thread[j].pc = "dead"

\* C3: when the most recent vector() call returned a value, a vector() call
\* made less than cache_expiration_timeout after it returns that value at
\* once, without a call of the wrapped element.
C3_HitWithinTimeout ==
    [][\A c \in Callers :
        (/\ VectorCall(c, "vector")
         /\ returned.v \in Values
         /\ now - returned.at < cache_expiration_timeout)
        => (/\ caller'[c].pc = "idle"
            /\ returned'.by = c
            /\ returned'.v = returned.v
            /\ ~ returned'.fetched)]_vars

\* C3 witness: a vector() call has just been served from the cache, with a
\* finite timeout, while the wrapped element holds something else.
C3_Witness ==
    /\ cache_expiration_timeout # Infinity
    /\ returned.op = "vector"
    /\ returned.v \in Values
    /\ ~ returned.fetched
    /\ backing # returned.v
    /\ now > 0

\* No call is in progress, and more than T + P has passed since the last call
\* returned, on a wrapper whose monitor can sleep P.
Quiet ==
    /\ elem = "ok"
    /\ cache_expiration_timeout # Infinity
    /\ poll_interval >= 0
    /\ \A c \in Callers : caller[c].pc = "idle"
    /\ returned.at # NoTime
    /\ now - returned.at > cache_expiration_timeout + poll_interval

C5_NoMonitorOutlivesOwner ==
    elem = "deleted" => (cache_v = None /\ Monitors = {})

\* C5 witness: __del__ has returned after a monitor saw the cleared cache
\* and left.
C5_Witness ==
    /\ elem = "deleted"
    /\ \E i \in Threads : thread[i].why = "invalidated"

\* C13: a vector() / has_vector() call whose fetch finds no vector returns
\* None (has_vector: False), leaves cache_v None and starts no monitor thread;
\* the call after it fetches from the wrapped element again.
C13_AbsentIsNotCached ==
    /\ [][\A c \in Callers :
            (VectorFetch(c, FALSE) /\ backing = None)
            => (/\ caller'[c].pc = "idle"
                /\ returned'.by = c /\ returned'.v = None /\ returned'.fetched
                /\ cache_v' = None
                /\ thread' = thread /\ cache_thread' = cache_thread)]_vars
    /\ [][\A c \in Callers, op \in {"vector", "has_vector"} :
            (VectorCall(c, op) /\ returned.fetched /\ returned.v = None)
            => caller'[c].pc = "fetch"]_vars

\* C13 witness: has_vector() has returned False after a fetch, no monitor
\* thread was ever started, and the next call is fetching.
C13_Witness ==
    /\ returned.op = "has_vector" /\ returned.fetched /\ returned.v = None
    /\ Result = FALSE
    /\ cache_v = None
    /\ cache_thread = NoThread
    /\ \A i \in Threads : thread[i].pc = "new"
    /\ \E c \in Callers : caller[c].pc = "fetch"

\* C14: when the fetch inside vector() fails, the failure reaches the caller
\* and the wrapper is as before the call: cache_v still None, no monitor
\* thread started, cache_last_access not set, the lock free again.
C14_FetchFailureLeavesNoTrace ==
    [][\A c \in Callers :
        VectorFetch(c, TRUE)
        => (/\ caller'[c].pc = "idle"
            /\ returned'.by = c /\ returned'.v = "raised"
            /\ cache_v' = None
            /\ thread' = thread /\ cache_thread' = cache_thread
            /\ cache_last_access' = cache_last_access
            /\ cache_lock' = Unlocked)]_vars

\* C14 witness: a call has failed at a time later than cache_last_access,
\* and the call after it holds the lock and is fetching.
C14_Witness ==
    /\ returned.v = "raised"
    /\ cache_last_access # NoTime
    /\ returned.at > cache_last_access
    /\ \E c \in Callers : caller[c].pc = "fetch" /\ cache_lock.owner = c

\* C15: a wrapper that was built has a positive expiration timeout and a
\* positive poll interval, and a client that was built has a clause limit of
\* at least 2.
C15_InvalidConfigRejected ==
    /\ elem = "ok" => (cache_expiration_timeout > 0 /\ poll_interval > 0)
    /\ \A c \in Clients : c.max_boolean_clauses >= 2

\* C16: whenever the lock is free, self.cache_thread is set if and only if
\* self.cache_v is set.
C16_MonitorIffValue ==
    (elem = "ok" /\ LockFree) => ((cache_thread # NoThread) <=> (cache_v # None))

\* Some Thread object is started in this step.
Started == \E i \in Threads : ~ alive(i) /\ alive(i)'

\* C17 as claimed: a monitor thread is started only by a successful population
\* with a finite timeout; with an infinite timeout a successful population
\* sets cache_v and starts no monitor thread.
C17_MonitorOnlyForFiniteT ==
    /\ [][Started => ((\E c \in Callers : VectorPopulate(c))
                         /\ cache_expiration_timeout # Infinity)]_vars
    /\ [][\A c \in Callers :
            (VectorPopulate(c) /\ cache_expiration_timeout = Infinity)
            => (cache_v' = caller[c].v /\ ~ Started)]_vars

\* C17 amended: a monitor thread is started only by a successful population,
\* and by every one, with a finite and with an infinite timeout alike; with
\* an infinite timeout the monitor never clears the value as timed out.
C17_MonitorOnEveryPopulation ==
    /\ [][Started => \E c \in Callers : VectorPopulate(c)]_vars
    /\ [][\A c \in Callers :
            VectorPopulate(c)
            => (/\ cache_v' = caller[c].v
                /\ Started
                /\ cache_thread' # cache_thread
                /\ thread'[cache_thread'].pc = "sleep"
                /\ thread'[cache_thread'].wake = now + poll_interval)]_vars
    /\ [](cache_expiration_timeout = Infinity =>
              \A i \in Threads : thread[i].why # "timeout")

\* C17 witness: with an infinite timeout, a monitor thread is asleep again
\* after a poll that found the value still cached.
C17_Witness ==
    /\ cache_expiration_timeout = Infinity
    /\ cache_v \in Values
    /\ cache_thread # NoThread
    /\ thread[cache_thread].pc = "sleep"
    /\ thread[cache_thread].wake > returned.at + poll_interval
    /\ poll_interval > 0

\* C18: under fair scheduling __del__ returns, with a finite and with an
\* infinite timeout: once it has cleared cache_v, a running monitor sees
\* cache_v None at its next poll and leaves, and the join ends.
C18_DelTerminates ==
    /\ (elem = "deleting") ~> (elem = "deleted")
    /\ [][\A i \in Threads :
            (MonitorPoll(i) /\ elem = "deleting") => thread'[i].pc = "exiting"]_vars

\* C18 witness: __del__ has returned, with an infinite timeout, after waiting
\* for a monitor that was asleep past the time cache_v was cleared.
C18_Witness ==
    /\ elem = "deleted"
    /\ cache_expiration_timeout = Infinity
    /\ cache_thread # NoThread
    /\ thread[cache_thread].pc = "dead"
    /\ thread[cache_thread].why = "invalidated"
    /\ now > returned.at

\* C20: a vector() call that has taken the lock returns, whatever the other
\* callers and the monitor do, and when it waits in join for the previous
\* monitor thread, that thread is past its last use of the lock.
C20_VectorReturns ==
    /\ \A c \in Callers : (caller[c].pc # "idle") ~> (caller[c].pc = "idle")
    /\ [](\A c \in Callers :
            (caller[c].pc = "join" /\ cache_thread # NoThread)
                => thread[cache_thread].pc \in {"exiting", "dead"})

\* C20 witness: a vector() call holds the lock in join while the previous
\* monitor thread has not yet returned, and the other caller has had a value.
C20_Witness ==
    \E c \in Callers :
        /\ caller[c].pc = "join"
        /\ cache_lock.owner = c
        /\ cache_thread # NoThread
        /\ thread[cache_thread].pc = "exiting"
        /\ returned.by # c /\ returned.v \in Values

\* C21: the assertion of vector()'s hit branch holds: whenever cache_v is set
\* and a caller could take the lock, self.cache_thread names a Thread, and
\* that thread has not returned from run(); no call ends in AssertionError.
C21_HitHasLiveMonitor ==
    /\ returned.v # "AssertionError"
    /\ (elem = "ok" /\ LockFree /\ cache_v # None) =>
           (cache_thread # NoThread /\ thread[cache_thread].pc \in {"sleep", "woken"})

====
